---- MODULE Spec2Model ----
(***************************************************************************)
(* Collection-consistency protocol of the knowledge router                 *)
(* (backend/open_webui/apps/webui/routers/knowledge.py).                   *)
(*                                                                         *)
(* The handlers add_file_to_knowledge_by_id and                            *)
(* remove_file_from_knowledge_by_id are plain `def` routes: they run on    *)
(* worker threads and interleave at every store call.  Each store call of  *)
(* a handler is one step of the request that runs it; the checks between   *)
(* two store calls belong to the step of the call they follow or guard.    *)
(* delete_knowledge_by_id makes two store calls, between which the worker  *)
(* threads may run; create_new_knowledge makes one.  The stores themselves *)
(* (Knowledges, Files, VECTOR_DB_CLIENT, process_file) are not part of the *)
(* router: they follow the contracts of the specification, sections 4.1 to *)
(* 4.4.                                                                    *)
(*                                                                         *)
(* The second part models the S3 storage provider                          *)
(* (backend/open_webui/storage/s3_storage_provider.py): object keys and    *)
(* locators are strings, built and parsed character by character as the    *)
(* provider builds and parses them.  The provider is exercised on its own  *)
(* in the specification SpecS3, one call at a time.                        *)
(***************************************************************************)
EXTENDS Integers, Sequences, FiniteSets, TLC

\* ---------------------------------------------------------------- bounds
MaxK == 2
MaxF == 2
MaxProcs == 2
MaxOps == 2
MaxNameLen == 2
MaxBytes == 1
MaxS3Ops == 4

KIds == 1 .. MaxK
FIds == 1 .. MaxF
Procs == 1 .. MaxProcs

\* ---------------------------------------------------------------- state
VARIABLES
    Knowledges,     \* knowledge record store: id -> record
    Files,          \* file record store: id -> record
    blobs,          \* storage provider: ids of the files whose blob is stored
    VECTOR_DB,      \* vector index: set of <<collection_name, file_id>> tags
    pc,             \* per request: position in its handler
    id,             \* per request: path parameter `id`
    file_id,        \* per request: form_data.file_id
    knowledge,      \* per request: local variable `knowledge`
    file,           \* per request: local variable `file`
    exclusive,      \* history, per request: no request on the same id overlapped it
    last,           \* history: the request that returned most recently
    failedPartway,  \* history: some add/remove failed after a store mutation
    ops,            \* number of requests issued so far
    named,          \* number of collection ids that requests have named so far
    s3,             \* S3 bucket S3_BUCKET_NAME: object key -> body
    cache,          \* S3_LOCAL_CACHE_DIR: object key -> downloaded body
    uploads,        \* history: the <<locator, contents>> upload_file returned
    issuedDelete,   \* history: delete_file or delete_all_files was called
    s3last,         \* history: the provider call that returned most recently
    s3ops           \* number of provider calls so far

s3vars == <<s3, cache, uploads, issuedDelete, s3last, s3ops>>

vars == <<Knowledges, Files, blobs, VECTOR_DB, pc, id, file_id,
          knowledge, file, exclusive, last, failedPartway, ops, named,
          s3, cache, uploads, issuedDelete, s3last, s3ops>>

\* ---------------------------------------------------------------- values
\* A knowledge record as the router sees it: None, or a record whose data
\* may lack the "file_ids" key.
NoKnowledge == [exists |-> FALSE, has_ids |-> FALSE, file_ids |-> <<>>]

\* A file record as the router sees it: None, or a record whose data is
\* empty (not yet processed) or present.
NoFile == [exists |-> FALSE, data |-> FALSE]

NoRequest == [op |-> "none", id |-> 0, file_id |-> 0, result |-> "none",
              file_ids |-> <<>>, exclusive |-> FALSE, repeats |-> "none",
              lost |-> 0]

\* data = knowledge.data or {} ; file_ids = data.get("file_ids", [])
file_idsOf(k) == IF k.exists /\ k.has_ids THEN k.file_ids ELSE <<>>

\* x in list
InList(x, s) == \E i \in 1 .. Len(s) : s[i] = x

\* Variant of ListAppend that inserts at the front (list.insert(0, x)).
ListAppend_front(s, x) == <<x>> \o s

\* list.append(x)
ListAppend(s, x) == Append(s, x)

\* Variant of ListRemove that drops the first element whatever it is
\* (list.pop(0)).
ListRemove_first(s, x) == IF s = <<>> THEN <<>> ELSE Tail(s)

\* list.remove(x): drops the first occurrence of x
RECURSIVE ListRemove(_, _)
ListRemove(s, x) ==
    IF s = <<>> THEN <<>>
    ELSE IF Head(s) = x THEN Tail(s)
    ELSE <<Head(s)>> \o ListRemove(Tail(s), x)

\* ---------------------------------------------------------------- stores
\* Knowledges.update_knowledge_by_id(id, KnowledgeUpdateForm(data=data)):
\* the record after the update, or None when there is no such record.  The
\* record store is a subsystem that fails on its own: a write it does not
\* take also returns None and changes nothing (the steps AddUpdate and
\* RemoveUpdate choose whether the write is stored).
UpdatedKnowledge(K, k, ids) ==
    IF K[k].exists
    THEN [exists |-> TRUE, has_ids |-> TRUE, file_ids |-> ids]
    ELSE NoKnowledge

Knowledges_update(K, k, ids) ==
    IF K[k].exists THEN [K EXCEPT ![k] = UpdatedKnowledge(K, k, ids)] ELSE K

\* A knowledge record as created: its data has no "file_ids" yet.
NewKnowledge == [exists |-> TRUE, has_ids |-> FALSE, file_ids |-> <<>>]

\* Knowledges.insert_new_knowledge(user.id, form_data): a new record whose
\* data has no "file_ids" yet; nothing changes when the id is taken.
Knowledges_insert(K, k) ==
    IF K[k].exists THEN K
    ELSE [K EXCEPT ![k] = NewKnowledge]

\* Knowledges.delete_knowledge_by_id(id)
Knowledges_delete(K, k) == [K EXCEPT ![k] = NoKnowledge]

\* Files.delete_file_by_id(id): the record and its blob
Files_delete(F, f) == [F EXCEPT ![f] = NoFile]
Blobs_delete(B, f) == B \ {f}

\* process_file(ProcessFileForm(file_id, collection_name)) on success
Vector_insert(V, k, f) == V \cup {<<k, f>>}

\* VECTOR_DB_CLIENT.delete(collection_name, filter={"file_id": f})
Vector_delete(V, k, f) == V \ {<<k, f>>}

\* VECTOR_DB_CLIENT.delete_collection(collection_name)
Vector_delete_collection(V, k) == {e \in V : e[1] # k}

\* ------------------------------------------------------------ S3 strings
\* Strings are sequences of characters.  File names are made of a letter
\* and the path separator; file contents are byte strings.
Chars == {"a", "/"}
Names == UNION {[1 .. n -> Chars] : n \in 1 .. MaxNameLen}
Bytes == UNION {[1 .. n -> 0 .. 1] : n \in 0 .. MaxBytes}

\* Configuration of the provider (open_webui.config).
S3_BUCKET_NAME == <<"B">>
S3_BUCKET_PREFIX == <<"p">>

\* Key=f"{self.bucket_prefix}/{filename}"
KeyOf(filename) == S3_BUCKET_PREFIX \o <<"/">> \o filename

\* f"s3://{self.bucket_name}/{self.bucket_prefix}/{filename}"
LocatorOf(filename) ==
    <<"s", "3", ":", "/", "/">> \o S3_BUCKET_NAME \o <<"/">>
        \o S3_BUCKET_PREFIX \o <<"/">> \o filename

\* str.find(sep), counted from 1: 0 when sep does not occur in s
Find(s, sep) ==
    LET hits == {i \in 1 .. Len(s) - Len(sep) + 1 :
                    SubSeq(s, i, i + Len(sep) - 1) = sep}
    IN  IF hits = {} THEN 0
        ELSE CHOOSE i \in hits : \A j \in hits : i <= j

\* str.split(sep): the pieces between the occurrences of sep, found from
\* the left without overlap
RECURSIVE Split(_, _)
Split(s, sep) ==
    LET i == Find(s, sep)
    IN  IF i = 0 THEN <<s>>
        ELSE <<SubSeq(s, 1, i - 1)>>
                 \o Split(SubSeq(s, i + Len(sep), Len(s)), sep)

\* str.split(sep, 1): cut at the first occurrence of sep only
SplitOnce(s, sep) ==
    LET i == Find(s, sep)
    IN  IF i = 0 THEN <<s>>
        ELSE <<SubSeq(s, 1, i - 1), SubSeq(s, i + Len(sep), Len(s))>>

NotParsed == [ok |-> FALSE, bucket_name |-> <<>>, key |-> <<>>]

\* bucket_name, key = file_path.split("//")[1].split("/", 1)
\* IndexError when there is no second piece, ValueError when the second
\* piece has no "/" to unpack into two names.
ParseLocator(file_path) ==
    LET pieces == Split(file_path, <<"/", "/">>)
    IN  IF Len(pieces) < 2 THEN NotParsed
        ELSE LET pair == SplitOnce(pieces[2], <<"/">>)
             IN  IF Len(pair) # 2 THEN NotParsed
                 ELSE [ok |-> TRUE, bucket_name |-> pair[1], key |-> pair[2]]

\* Character codes, the order in which S3 lists keys.
Code(c) ==
    CASE c = "/" -> 47 [] c = "3" -> 51 [] c = ":" -> 58 [] c = "B" -> 66
      [] c = "a" -> 97 [] c = "p" -> 112 [] c = "s" -> 115

RECURSIVE LexLess(_, _)
LexLess(s, t) ==
    IF t = <<>> THEN FALSE
    ELSE IF s = <<>> THEN TRUE
    ELSE IF Head(s) = Head(t) THEN LexLess(Tail(s), Tail(t))
    ELSE Code(Head(s)) < Code(Head(t))

StartsWith(s, prefix) ==
    Len(s) >= Len(prefix) /\ SubSeq(s, 1, Len(prefix)) = prefix

\* ------------------------------------------------------------- S3 client
\* The number of keys one list_objects_v2 response returns at most (1000 in
\* S3), scaled down.
ListingLimit == 2

EmptyBucket == [k \in {} |-> <<>>]

\* client.put_object(Bucket, Key, Body): creates or replaces the object
put_object(S, key, body) ==
    [k \in DOMAIN S \cup {key} |-> IF k = key THEN body ELSE S[k]]

\* client.get_object(Bucket, Key): the body, or NoSuchBucket / NoSuchKey
get_object(S, bucket_name, key) ==
    IF bucket_name = S3_BUCKET_NAME /\ key \in DOMAIN S
    THEN [ok |-> TRUE, body |-> S[key]]
    ELSE [ok |-> FALSE, body |-> <<>>]

\* client.delete_object(Bucket, Key): succeeds whether or not the key exists
delete_object(S, key) == [k \in DOMAIN S \ {key} |-> S[k]]

\* client.list_objects_v2(Bucket, Prefix): the first ListingLimit keys, in
\* key order, among the keys that start with Prefix
list_objects_v2(S, prefix) ==
    LET matching == {k \in DOMAIN S : StartsWith(k, prefix)}
    IN  {k \in matching :
            Cardinality({j \in matching : LexLess(j, k)}) < ListingLimit}

\* What get_file yields for file_path on bucket state S: the chunks of the
\* object's body, or RuntimeError.
Retrieve(S, file_path) ==
    LET loc == ParseLocator(file_path)
    IN  IF loc.ok THEN get_object(S, loc.bucket_name, loc.key)
        ELSE [ok |-> FALSE, body |-> <<>>]

\* ----------------------------------------------------------- S3 provider
routerVars == <<Knowledges, Files, blobs, VECTOR_DB, pc, id, file_id,
                knowledge, file, exclusive, last, failedPartway, ops, named>>

NoCall == [op |-> "none", arg |-> <<>>, ok |-> FALSE, body |-> <<>>,
           locator |-> <<>>]

S3Init ==
    /\ s3 = EmptyBucket
    /\ cache = EmptyBucket
    /\ uploads = {}
    /\ issuedDelete = FALSE
    /\ s3last = NoCall
    /\ s3ops = 0

\* One more call of a provider method.
S3Call ==
    /\ s3ops < MaxS3Ops
    /\ s3ops' = s3ops + 1
    /\ UNCHANGED routerVars

\* The locators upload_file has returned.
Locators == {u[1] : u \in uploads}

\* async def upload_file(self, file, filename)
upload_file(contents, filename) ==
    /\ S3Call
    /\ IF contents = <<>>
       THEN /\ s3last' = [op |-> "upload_file", arg |-> filename,
                          ok |-> FALSE, body |-> <<>>, locator |-> <<>>]
            /\ UNCHANGED <<s3, uploads>>
       ELSE /\ s3' = put_object(s3, KeyOf(filename), contents)
            /\ uploads' = uploads \cup {<<LocatorOf(filename), contents>>}
            /\ s3last' = [op |-> "upload_file", arg |-> filename,
                          ok |-> TRUE, body |-> contents,
                          locator |-> LocatorOf(filename)]
    /\ UNCHANGED <<cache, issuedDelete>>

\* async def get_file(self, file_path)
get_file(file_path) ==
    /\ S3Call
    /\ LET got == Retrieve(s3, file_path)
       IN  s3last' = [op |-> "get_file", arg |-> file_path, ok |-> got.ok,
                      body |-> got.body, locator |-> <<>>]
    /\ UNCHANGED <<s3, cache, uploads, issuedDelete>>

\* async def as_local_file(self, file_path): the body is downloaded to
\* f"{S3_LOCAL_CACHE_DIR}/{key}", which the returned LocalCachedFile names.
as_local_file(file_path) ==
    /\ S3Call
    /\ LET loc == ParseLocator(file_path)
           got == Retrieve(s3, file_path)
       IN  /\ cache' = IF got.ok THEN put_object(cache, loc.key, got.body)
                       ELSE cache
           /\ s3last' = [op |-> "as_local_file", arg |-> file_path,
                         ok |-> got.ok, body |-> got.body,
                         locator |-> <<>>]
    /\ UNCHANGED <<s3, uploads, issuedDelete>>

\* async def delete_file(self, filename)
delete_file(filename) ==
    /\ S3Call
    /\ s3' = delete_object(s3, filename)
    /\ issuedDelete' = TRUE
    /\ s3last' = [op |-> "delete_file", arg |-> filename, ok |-> TRUE,
                  body |-> <<>>, locator |-> <<>>]
    /\ UNCHANGED <<cache, uploads>>

\* async def delete_all_files(self)
delete_all_files ==
    /\ S3Call
    /\ LET listed == list_objects_v2(s3, S3_BUCKET_PREFIX)
       IN  s3' = [k \in DOMAIN s3 \ listed |-> s3[k]]
    /\ issuedDelete' = TRUE
    /\ s3last' = [op |-> "delete_all_files", arg |-> <<>>, ok |-> TRUE,
                  body |-> <<>>, locator |-> <<>>]
    /\ UNCHANGED <<cache, uploads>>

\* ---------------------------------------------------------------- init
\* The router holds no state of its own; the stores it is started on are in
\* a state that earlier requests have left.  The model starts from the
\* consistent store states of one of these shapes: no collection exists, or
\* every collection lists the files 1 .. m in this order (m >= 1), each
\* with its vector entry.  The ingestion pipeline has stored every file;
\* while no collection exists the extracted content (file.data) of the
\* last file may still be missing.  Absent file records arise when
\* removeFile deletes them.
Members(m) == [i \in 1 .. m |-> i]

InitKnowledge(m) ==
    IF m = 0 THEN NoKnowledge
    ELSE [exists |-> TRUE, has_ids |-> TRUE, file_ids |-> Members(m)]

Init ==
    /\ \E m \in 0 .. MaxF, unprocessed \in BOOLEAN :
          /\ Knowledges = [k \in KIds |-> InitKnowledge(m)]
          /\ VECTOR_DB = KIds \X (1 .. m)
          /\ Files = [f \in FIds |->
                        [exists |-> TRUE,
                         data |-> ~(unprocessed /\ f = MaxF /\ m = 0)]]
    /\ blobs = FIds
    /\ pc = [p \in Procs |-> "idle"]
    /\ id = [p \in Procs |-> 0]
    /\ file_id = [p \in Procs |-> 0]
    /\ knowledge = [p \in Procs |-> NoKnowledge]
    /\ file = [p \in Procs |-> NoFile]
    /\ exclusive = [p \in Procs |-> FALSE]
    /\ last = NoRequest
    /\ failedPartway = FALSE
    /\ ops = 0
    /\ named = 0
    /\ S3Init

\* ---------------------------------------------------------------- framing
InFlight(p) == pc[p] # "idle"

\* No request other than p is inside a handler called with id k.
NoneOn(p, k) == \A r \in Procs \ {p} : ~(InFlight(r) /\ id[r] = k)

\* A new request is p, with path parameter k.  Requests and collection ids
\* are interchangeable names: the new request takes the first free slot,
\* and an id that no request has named before is the next unused one.
Arrives(p, k) ==
    /\ pc[p] = "idle"
    /\ \A q \in Procs : q < p => InFlight(q)
    /\ k <= named + 1
    /\ named' = IF k > named THEN k ELSE named
    /\ ops < MaxOps
    /\ ops' = ops + 1
    /\ UNCHANGED s3vars

\* Request p enters a handler with path parameter k and form file id f.
Enter(p, k, f) ==
    /\ Arrives(p, k)
    /\ id' = [id EXCEPT ![p] = k]
    /\ file_id' = [file_id EXCEPT ![p] = f]
    /\ exclusive' = [q \in Procs |->
                       IF q = p THEN NoneOn(p, k)
                       ELSE IF InFlight(q) /\ id[q] = k THEN FALSE
                       ELSE exclusive[q]]

\* The result of the request that returned just before, when the request
\* (o, k, f) now returning is the same call again; "none" otherwise.
Repeats(o, k, f) ==
    IF last.op = o /\ last.id = k /\ last.file_id = f THEN last.result
    ELSE "none"

\* The file whose update the successful write of request p loses, 0 when
\* there is none: the request that returned just before succeeded with an
\* add or a remove of another file on the same collection, its list came
\* from the file_ids snapshot that p read as well and is the stored one, and
\* the list ids that p stores lacks the file it added, or lists the file it
\* removed.
Lost(p, o, r, ids) ==
    IF /\ r = "Ok" /\ o \in {"add", "remove"}
       /\ last.result = "Ok" /\ last.op \in {"add", "remove"}
       /\ last.id = id[p] /\ last.file_id # file_id[p]
       /\ last.file_ids =
             (IF last.op = "add"
              THEN ListAppend(file_idsOf(knowledge[p]), last.file_id)
              ELSE ListRemove(file_idsOf(knowledge[p]), last.file_id))
       /\ last.file_ids = file_idsOf(Knowledges[id[p]])
       /\ InList(last.file_id, ids) = (last.op = "remove")
    THEN last.file_id
    ELSE 0

\* Request p leaves handler o: `return`, or `raise` of the named failure.
Return(p, o, r, ids, partway) ==
    /\ pc' = [pc EXCEPT ![p] = "idle"]
    /\ id' = [id EXCEPT ![p] = 0]
    /\ file_id' = [file_id EXCEPT ![p] = 0]
    /\ knowledge' = [knowledge EXCEPT ![p] = NoKnowledge]
    /\ file' = [file EXCEPT ![p] = NoFile]
    /\ exclusive' = [exclusive EXCEPT ![p] = FALSE]
    /\ last' = [op |-> o, id |-> id[p], file_id |-> file_id[p], result |-> r,
                file_ids |-> ids, exclusive |-> exclusive[p],
                repeats |-> Repeats(o, id[p], file_id[p]),
                lost |-> Lost(p, o, r, ids)]
    /\ failedPartway' = (failedPartway \/ partway)
    /\ UNCHANGED <<ops, named>>
    /\ UNCHANGED s3vars

\* Request p moves on to the store call at position next.
Goto(p, next) ==
    /\ pc' = [pc EXCEPT ![p] = next]
    /\ UNCHANGED <<id, file_id, exclusive, last, failedPartway, ops, named>>
    /\ UNCHANGED s3vars

\* ---------------------------------------------------------------- addFile
\* knowledge = Knowledges.get_knowledge_by_id(id=id)
AddGetKnowledge(p, k, f) ==
    /\ Enter(p, k, f)
    /\ pc' = [pc EXCEPT ![p] = "add_get_file"]
    /\ knowledge' = [knowledge EXCEPT ![p] = Knowledges[k]]
    /\ UNCHANGED <<Knowledges, Files, blobs, VECTOR_DB, file, last,
                   failedPartway>>

\* Variant of AddGetFile that tests `if knowledge` before the file checks.
AddGetFile_collectionFirst(p) ==
    /\ pc[p] = "add_get_file"
    /\ IF ~knowledge[p].exists
       THEN Return(p, "add", "NotFoundCollection", <<>>, FALSE)
       ELSE IF ~Files[file_id[p]].exists
       THEN Return(p, "add", "NotFoundFile", <<>>, FALSE)
       ELSE IF ~Files[file_id[p]].data
       THEN Return(p, "add", "NotReady", <<>>, FALSE)
       ELSE /\ Goto(p, "add_process_file")
            /\ file' = [file EXCEPT ![p] = Files[file_id[p]]]
            /\ UNCHANGED knowledge
    /\ UNCHANGED <<Knowledges, Files, blobs, VECTOR_DB>>

\* file = Files.get_file_by_id(form_data.file_id); if not file; if not file.data
AddGetFile(p) ==
    /\ pc[p] = "add_get_file"
    /\ IF ~Files[file_id[p]].exists
       THEN Return(p, "add", "NotFoundFile", <<>>, FALSE)
       ELSE IF ~Files[file_id[p]].data
       THEN Return(p, "add", "NotReady", <<>>, FALSE)
       ELSE /\ Goto(p, "add_process_file")
            /\ file' = [file EXCEPT ![p] = Files[file_id[p]]]
            /\ UNCHANGED knowledge
    /\ UNCHANGED <<Knowledges, Files, blobs, VECTOR_DB>>

\* Variant of AddProcessFile that swallows the exception of process_file and
\* goes on to the record update.
AddProcessFile_ignoresFailure(p, ok) ==
    /\ pc[p] = "add_process_file"
    /\ VECTOR_DB' = IF ok THEN Vector_insert(VECTOR_DB, id[p], file_id[p])
                    ELSE VECTOR_DB
    /\ Goto(p, "add_update")
    /\ UNCHANGED <<Knowledges, Files, blobs, knowledge, file>>

\* try: process_file(...) except Exception: raise HTTPException(400)
AddProcessFile(p, ok) ==
    /\ pc[p] = "add_process_file"
    /\ IF ok
       THEN /\ VECTOR_DB' = Vector_insert(VECTOR_DB, id[p], file_id[p])
            /\ Goto(p, "add_update")
            /\ UNCHANGED <<knowledge, file>>
       ELSE /\ Return(p, "add", "IndexingFailed", <<>>, FALSE)
            /\ UNCHANGED VECTOR_DB
    /\ UNCHANGED <<Knowledges, Files, blobs>>

\* Variant of AddUpdate without the `if file_id not in file_ids` test.
AddUpdate_noMembershipTest(p) ==
    /\ pc[p] = "add_update"
    /\ LET k == id[p]
           f == file_id[p]
           file_ids == file_idsOf(knowledge[p])
           new_ids == ListAppend(file_ids, f)
           updated == UpdatedKnowledge(Knowledges, k, new_ids)
       IN  IF ~knowledge[p].exists
           THEN /\ Return(p, "add", "NotFoundCollection", <<>>, TRUE)
                /\ UNCHANGED Knowledges
           ELSE \E stored \in BOOLEAN :
                   IF stored /\ updated.exists
                   THEN /\ Knowledges' = Knowledges_update(Knowledges, k,
                                                           new_ids)
                        /\ Return(p, "add", "Ok", updated.file_ids, FALSE)
                   ELSE /\ UNCHANGED Knowledges
                        /\ Return(p, "add", "UpdateFailed", <<>>, TRUE)
    /\ UNCHANGED <<Files, blobs, VECTOR_DB>>

\* Variant of AddUpdate that writes the record back whole (a save of the
\* object it read) instead of updating the stored one.
AddUpdate_savesRecord(p) ==
    /\ pc[p] = "add_update"
    /\ LET k == id[p]
           f == file_id[p]
           file_ids == file_idsOf(knowledge[p])
           new_ids == ListAppend(file_ids, f)
           saved == [exists |-> TRUE, has_ids |-> TRUE, file_ids |-> new_ids]
       IN  IF ~knowledge[p].exists
           THEN /\ Return(p, "add", "NotFoundCollection", <<>>, TRUE)
                /\ UNCHANGED Knowledges
           ELSE IF InList(f, file_ids)
           THEN /\ Return(p, "add", "Conflict", <<>>, TRUE)
                /\ UNCHANGED Knowledges
           ELSE \E stored \in BOOLEAN :
                   IF stored
                   THEN /\ Knowledges' = [Knowledges EXCEPT ![k] = saved]
                        /\ Return(p, "add", "Ok", new_ids, FALSE)
                   ELSE /\ UNCHANGED Knowledges
                        /\ Return(p, "add", "UpdateFailed", <<>>, TRUE)
    /\ UNCHANGED <<Files, blobs, VECTOR_DB>>

\* Variant of AddUpdate that reads the stored record again for the list it
\* extends, instead of the record read when the handler started.
AddUpdate_rereads(p) ==
    /\ pc[p] = "add_update"
    /\ LET k == id[p]
           f == file_id[p]
           file_ids == file_idsOf(Knowledges[k])
           new_ids == ListAppend(file_ids, f)
           updated == UpdatedKnowledge(Knowledges, k, new_ids)
       IN  IF ~knowledge[p].exists
           THEN /\ Return(p, "add", "NotFoundCollection", <<>>, TRUE)
                /\ UNCHANGED Knowledges
           ELSE IF InList(f, file_ids)
           THEN /\ Return(p, "add", "Conflict", <<>>, TRUE)
                /\ UNCHANGED Knowledges
           ELSE \E stored \in BOOLEAN :
                   IF stored /\ updated.exists
                   THEN /\ Knowledges' = Knowledges_update(Knowledges, k,
                                                           new_ids)
                        /\ Return(p, "add", "Ok", updated.file_ids, FALSE)
                   ELSE /\ UNCHANGED Knowledges
                        /\ Return(p, "add", "UpdateFailed", <<>>, TRUE)
    /\ UNCHANGED <<Files, blobs, VECTOR_DB>>

\* if knowledge: ... if file_id not in file_ids: append, update ... else ...
AddUpdate(p) ==
    /\ pc[p] = "add_update"
    /\ LET k == id[p]
           f == file_id[p]
           file_ids == file_idsOf(knowledge[p])
           new_ids == ListAppend(file_ids, f)
           updated == UpdatedKnowledge(Knowledges, k, new_ids)
       IN  IF ~knowledge[p].exists
           THEN /\ Return(p, "add", "NotFoundCollection", <<>>, TRUE)
                /\ UNCHANGED Knowledges
           ELSE IF InList(f, file_ids)
           THEN /\ Return(p, "add", "Conflict", <<>>, TRUE)
                /\ UNCHANGED Knowledges
           ELSE \E stored \in BOOLEAN :
                   IF stored /\ updated.exists
                   THEN /\ Knowledges' = Knowledges_update(Knowledges, k,
                                                           new_ids)
                        /\ Return(p, "add", "Ok", updated.file_ids, FALSE)
                   ELSE /\ UNCHANGED Knowledges
                        /\ Return(p, "add", "UpdateFailed", <<>>, TRUE)
    /\ UNCHANGED <<Files, blobs, VECTOR_DB>>

\* ---------------------------------------------------------------- removeFile
\* knowledge = Knowledges.get_knowledge_by_id(id=id)
RemoveGetKnowledge(p, k, f) ==
    /\ Enter(p, k, f)
    /\ pc' = [pc EXCEPT ![p] = "remove_get_file"]
    /\ knowledge' = [knowledge EXCEPT ![p] = Knowledges[k]]
    /\ UNCHANGED <<Knowledges, Files, blobs, VECTOR_DB, file, last,
                   failedPartway>>

\* Variant of RemoveGetFile without the `if not file` test.
RemoveGetFile_noFileTest(p) ==
    /\ pc[p] = "remove_get_file"
    /\ Goto(p, "remove_vector_delete")
    /\ file' = [file EXCEPT ![p] = Files[file_id[p]]]
    /\ UNCHANGED knowledge
    /\ UNCHANGED <<Knowledges, Files, blobs, VECTOR_DB>>

\* file = Files.get_file_by_id(form_data.file_id); if not file: raise
RemoveGetFile(p) ==
    /\ pc[p] = "remove_get_file"
    /\ IF ~Files[file_id[p]].exists
       THEN Return(p, "remove", "NotFoundFile", <<>>, FALSE)
       ELSE /\ Goto(p, "remove_vector_delete")
            /\ file' = [file EXCEPT ![p] = Files[file_id[p]]]
            /\ UNCHANGED knowledge
    /\ UNCHANGED <<Knowledges, Files, blobs, VECTOR_DB>>

\* VECTOR_DB_CLIENT.delete(collection_name=knowledge.id, filter=...):
\* the argument knowledge.id is evaluated first and raises AttributeError
\* when knowledge is None; nothing catches it.
RemoveVectorDelete(p) ==
    /\ pc[p] = "remove_vector_delete"
    /\ IF ~knowledge[p].exists
       THEN /\ Return(p, "remove", "AttributeError", <<>>, FALSE)
            /\ UNCHANGED VECTOR_DB
       ELSE /\ VECTOR_DB' = Vector_delete(VECTOR_DB, id[p], file_id[p])
            /\ Goto(p, "remove_delete_file")
            /\ UNCHANGED <<knowledge, file>>
    /\ UNCHANGED <<Knowledges, Files, blobs>>

\* Variant of RemoveDeleteFile that puts the file deletion off until the
\* record write has succeeded, and so does not delete here.
RemoveDeleteFile_deferred(p) ==
    /\ pc[p] = "remove_delete_file"
    /\ Goto(p, "remove_update")
    /\ UNCHANGED <<Knowledges, Files, blobs, VECTOR_DB, knowledge, file>>

\* Files.delete_file_by_id(form_data.file_id)
RemoveDeleteFile(p) ==
    /\ pc[p] = "remove_delete_file"
    /\ Files' = Files_delete(Files, file_id[p])
    /\ blobs' = Blobs_delete(blobs, file_id[p])
    /\ Goto(p, "remove_update")
    /\ UNCHANGED <<Knowledges, VECTOR_DB, knowledge, file>>

\* if knowledge: ... if file_id in file_ids: remove, update ... else ...
RemoveUpdate(p) ==
    /\ pc[p] = "remove_update"
    /\ LET k == id[p]
           f == file_id[p]
           file_ids == file_idsOf(knowledge[p])
           new_ids == ListRemove(file_ids, f)
           updated == UpdatedKnowledge(Knowledges, k, new_ids)
       IN  IF ~knowledge[p].exists
           THEN /\ Return(p, "remove", "NotFoundCollection", <<>>, TRUE)
                /\ UNCHANGED Knowledges
           ELSE IF ~InList(f, file_ids)
           THEN /\ Return(p, "remove", "Conflict", <<>>, TRUE)
                /\ UNCHANGED Knowledges
           ELSE \E stored \in BOOLEAN :
                   IF stored /\ updated.exists
                   THEN /\ Knowledges' = Knowledges_update(Knowledges, k,
                                                           new_ids)
                        /\ Return(p, "remove", "Ok", updated.file_ids, FALSE)
                   ELSE /\ UNCHANGED Knowledges
                        /\ Return(p, "remove", "UpdateFailed", <<>>, TRUE)
    /\ UNCHANGED <<Files, blobs, VECTOR_DB>>

\* ---------------------------------------------------------------- deleteCollection
\* Variant of DeleteVectorCollection that also deletes the member files,
\* as removeFile does for the file it detaches.
DeleteVectorCollection_withFiles(p, k) ==
    /\ Enter(p, k, 0)
    /\ VECTOR_DB' = Vector_delete_collection(VECTOR_DB, k)
    /\ Files' = [f \in FIds |->
                   IF InList(f, file_idsOf(Knowledges[k])) THEN NoFile
                   ELSE Files[f]]
    /\ blobs' = {f \in blobs : ~InList(f, file_idsOf(Knowledges[k]))}
    /\ pc' = [pc EXCEPT ![p] = "delete_knowledge"]
    /\ UNCHANGED <<Knowledges, knowledge, file, last, failedPartway>>

\* VECTOR_DB_CLIENT.delete_collection(collection_name=id)
DeleteVectorCollection(p, k) ==
    /\ Enter(p, k, 0)
    /\ VECTOR_DB' = Vector_delete_collection(VECTOR_DB, k)
    /\ pc' = [pc EXCEPT ![p] = "delete_knowledge"]
    /\ UNCHANGED <<Knowledges, Files, blobs, knowledge, file, last,
                   failedPartway>>

\* Variant of DeleteKnowledge that reports True whatever the store returned.
DeleteKnowledge_alwaysTrue(p) ==
    /\ pc[p] = "delete_knowledge"
    /\ Knowledges' = Knowledges_delete(Knowledges, id[p])
    /\ Return(p, "delete", "True", <<>>, FALSE)
    /\ UNCHANGED <<Files, blobs, VECTOR_DB>>

\* result = Knowledges.delete_knowledge_by_id(id=id); return result
DeleteKnowledge(p) ==
    /\ pc[p] = "delete_knowledge"
    /\ Knowledges' = Knowledges_delete(Knowledges, id[p])
    /\ Return(p, "delete",
              IF Knowledges[id[p]].exists THEN "True" ELSE "False",
              <<>>, FALSE)
    /\ UNCHANGED <<Files, blobs, VECTOR_DB>>

\* ---------------------------------------------------------------- createCollection
\* knowledge = Knowledges.insert_new_knowledge(user.id, form_data);
\* if knowledge: return knowledge else: raise HTTPException(400)
CreateNewKnowledge(p, k) ==
    /\ Arrives(p, k)
    /\ Knowledges' = Knowledges_insert(Knowledges, k)
    /\ exclusive' = [q \in Procs |->
                       IF InFlight(q) /\ id[q] = k THEN FALSE
                       ELSE exclusive[q]]
    /\ last' = [op |-> "create", id |-> k, file_id |-> 0,
                result |-> IF Knowledges[k].exists THEN "AlreadyExists"
                           ELSE "Created",
                file_ids |-> <<>>, exclusive |-> NoneOn(p, k),
                repeats |-> Repeats("create", k, 0), lost |-> 0]
    /\ UNCHANGED <<Files, blobs, VECTOR_DB, pc, id, file_id, knowledge, file,
                   failedPartway>>

\* ---------------------------------------------------------------- next
Next ==
    \/ \E p \in Procs, k \in KIds, f \in FIds : AddGetKnowledge(p, k, f)
    \/ \E p \in Procs : AddGetFile(p)
    \/ \E p \in Procs, ok \in BOOLEAN : AddProcessFile(p, ok)
    \/ \E p \in Procs : AddUpdate(p)
    \/ \E p \in Procs, k \in KIds, f \in FIds : RemoveGetKnowledge(p, k, f)
    \/ \E p \in Procs : RemoveGetFile(p)
    \/ \E p \in Procs : RemoveVectorDelete(p)
    \/ \E p \in Procs : RemoveDeleteFile(p)
    \/ \E p \in Procs : RemoveUpdate(p)
    \/ \E p \in Procs, k \in KIds : DeleteVectorCollection(p, k)
    \/ \E p \in Procs : DeleteKnowledge(p)
    \/ \E p \in Procs, k \in KIds : CreateNewKnowledge(p, k)

Spec == Init /\ [][Next]_vars

\* The storage provider on its own: the calls its users make, in any order,
\* one at a time.  A locator passed in has the form of those upload_file
\* returns; delete_file is also called with the form of an object key.
InitS3 ==
    /\ Init
    /\ \A k \in KIds : ~Knowledges[k].exists
    /\ \A f \in FIds : Files[f].data

LocatorStrings == {LocatorOf(n) : n \in Names}
KeyStrings == {KeyOf(n) : n \in Names}

NextS3 ==
    \/ \E contents \in Bytes, filename \in Names :
          upload_file(contents, filename)
    \/ \E file_path \in LocatorStrings : get_file(file_path)
    \/ \E file_path \in LocatorStrings : as_local_file(file_path)
    \/ \E filename \in LocatorStrings \cup KeyStrings : delete_file(filename)
    \/ delete_all_files

SpecS3 == InitS3 /\ [][NextS3]_vars

\* ================================================================ properties
\* Request p takes a step (every step of a handler moves its pc, except the
\* single-step createCollection, which leaves it idle).
Step(p) == pc'[p] # pc[p]

\* Request p returns from its handler in this step.
Returns(p) == pc[p] # "idle" /\ pc'[p] = "idle"

AddPcs == {"add_get_file", "add_process_file", "add_update"}

\* ---------------------------------------------------------------- C1
\* C1: addFile checks file-record-exists, file-processed, indexing-succeeds,
\* collection-exists, not-already-member in this order and the first check
\* that fails decides the result.  A return with NotFound(file),
\* NotReady(file) or IndexingFailed comes with the knowledge records, the
\* file records, the blobs and the vector index as they were; the indexing
\* call is reached only by a request that found the file record and found
\* it processed; and no step of add before its final one writes a knowledge
\* or file record.
C1_AddStep(p) ==
    LET k == id[p]
        f == file_id[p]
    IN  /\ pc[p] = "add_get_file" =>
              IF ~Files[f].exists
              THEN /\ Returns(p) /\ last'.result = "NotFoundFile"
                   /\ UNCHANGED <<Knowledges, Files, blobs, VECTOR_DB>>
              ELSE IF ~Files[f].data
              THEN /\ Returns(p) /\ last'.result = "NotReady"
                   /\ UNCHANGED <<Knowledges, Files, blobs, VECTOR_DB>>
              ELSE pc'[p] = "add_process_file"
        /\ pc'[p] = "add_process_file" =>
              pc[p] = "add_get_file" /\ Files[f].exists /\ Files[f].data
        /\ pc[p] = "add_process_file" =>
              \/ /\ pc'[p] = "add_update"
                 /\ <<k, f>> \in VECTOR_DB'
              \/ /\ Returns(p) /\ last'.result = "IndexingFailed"
                 /\ UNCHANGED <<Knowledges, Files, blobs, VECTOR_DB>>
        /\ pc'[p] = "add_update" => pc[p] = "add_process_file"
        /\ pc[p] = "add_update" =>
              /\ Returns(p)
              /\ last'.result \in
                     {"NotFoundCollection", "Conflict", "Ok", "UpdateFailed"}
              /\ exclusive[p] =>
                     IF ~Knowledges[k].exists
                     THEN last'.result = "NotFoundCollection"
                     ELSE IF InList(f, file_idsOf(Knowledges[k]))
                     THEN last'.result = "Conflict"
                     ELSE last'.result \in {"Ok", "UpdateFailed"}
        /\ (pc[p] \in AddPcs \ {"add_update"} \/ pc'[p] = "add_get_file") =>
              UNCHANGED <<Knowledges, Files, blobs>>

C1_AddPreconditionOrder ==
    [][\A p \in Procs : Step(p) => C1_AddStep(p)]_vars

\* An add of an unprocessed file to an id without a record returned NotReady:
\* the file checks come before the collection check.
C1_Witness ==
    /\ last.op = "add"
    /\ last.result = "NotReady"
    /\ last.exclusive
    /\ ~Knowledges[last.id].exists
\* ---------------------------------------------------------------- C2
\* C2: an addFile(K, F) that no other request on K overlapped, and that
\* reaches its final step (F's record found and processed, indexing
\* succeeded) with K's record existing and F not a member, returns success
\* when the record store takes the write; K's file_ids afterwards is the
\* previous list with F appended as the last element, and the record in the
\* response is the stored record.
C2_SequentialAddAppends ==
    [][\A p \in Procs :
         (/\ Step(p)
          /\ pc[p] = "add_update"
          /\ exclusive[p]
          /\ file[p].exists /\ file[p].data
          /\ Knowledges[id[p]].exists
          /\ ~InList(file_id[p], file_idsOf(Knowledges[id[p]]))
          /\ last'.result # "UpdateFailed")
         => /\ Returns(p)
            /\ last'.result = "Ok"
            /\ Knowledges'[id[p]].exists
            /\ file_idsOf(Knowledges'[id[p]]) =
                  file_idsOf(Knowledges[id[p]]) \o <<file_id[p]>>
            /\ last'.file_ids = file_idsOf(Knowledges'[id[p]])
            /\ <<id[p], file_id[p]>> \in VECTOR_DB']_vars

\* A sequential add succeeded on a collection that already had a member and
\* the new file is the last of the two members.
C2_Witness ==
    /\ last.op = "add"
    /\ last.result = "Ok"
    /\ last.exclusive
    /\ Len(last.file_ids) = 2
    /\ last.file_ids[2] = last.file_id
    /\ last.file_ids[1] # last.file_id
    /\ Knowledges[last.id].file_ids = last.file_ids

\* ---------------------------------------------------------------- C3
NoDuplicates(s) == \A i, j \in 1 .. Len(s) : s[i] = s[j] => i = j

\* C3: under every interleaving of addFile, removeFile, deleteCollection
\* (and createCollection) no collection's file_ids lists a file twice; an
\* addFile(K, F) that no request on K overlapped and that reaches the
\* membership test while F is a member of K returns Conflict and leaves
\* the knowledge records as they are.
C3_NoDuplicateMembers ==
    [][/\ \A k \in KIds : NoDuplicates(file_idsOf(Knowledges'[k]))
       /\ \A p \in Procs :
            (/\ Step(p)
             /\ pc[p] = "add_update"
             /\ exclusive[p]
             /\ InList(file_id[p], file_idsOf(Knowledges[id[p]])))
            => /\ Returns(p)
               /\ last'.result = "Conflict"
               /\ UNCHANGED Knowledges]_vars

\* The same addFile(K, F) ran twice in a row: the first succeeded, the
\* second returned Conflict, and F is listed once.
C3_Witness ==
    /\ last.op = "add"
    /\ last.result = "Conflict"
    /\ last.repeats = "Ok"
    /\ last.exclusive
    /\ InList(last.file_id, file_idsOf(Knowledges[last.id]))
    /\ NoDuplicates(file_idsOf(Knowledges[last.id]))
\* ---------------------------------------------------------------- C4
Quiescent == \A p \in Procs : pc[p] = "idle"

\* C4 (invariant I1): whenever no request is in progress and no add or
\* remove has failed after a store mutation, every file id listed by an
\* existing collection has a vector entry in that collection's index.
C4_MembersAreIndexed ==
    (Quiescent /\ ~failedPartway) =>
        \A k \in KIds :
            \A i \in 1 .. Len(file_idsOf(Knowledges[k])) :
                <<k, file_idsOf(Knowledges[k])[i]>> \in VECTOR_DB

\* ---------------------------------------------------------------- C5
\* C5 (invariant I3): whenever no request is in progress, a collection id
\* has a vector entry if and only if it has a knowledge record.
C5_IndexIffRecord ==
    Quiescent =>
        \A k \in KIds :
            (\E f \in FIds : <<k, f>> \in VECTOR_DB) <=> Knowledges[k].exists

\* ---------------------------------------------------------------- C6
RemovePcs == {"remove_get_file", "remove_vector_delete",
              "remove_delete_file", "remove_update"}

\* C6: a removeFile that found the file record but no knowledge record
\* does not return before the vector-entry deletion and the file deletion,
\* and when it returns its result is NotFound(collection) with the file
\* record gone.
C6_RemoveWithoutCollection ==
    [][\A p \in Procs :
         (/\ Step(p)
          /\ pc[p] \in RemovePcs \ {"remove_get_file"}
          /\ ~knowledge[p].exists)
         => IF Returns(p)
            THEN /\ pc[p] = "remove_update"
                 /\ last'.result = "NotFoundCollection"
                 /\ ~Files'[file_id[p]].exists
            ELSE last' = last]_vars
\* ---------------------------------------------------------------- C7
\* C7: a removeFile whose file record is absent returns NotFound whatever
\* the collection; a removeFile on an existing collection K that no request
\* on K overlapped and that found the file record returns Conflict when F
\* is not in K.file_ids; and when removeFile(K, F) is called twice in a
\* row and the first call succeeds, the second returns NotFound.
C7_RemoveNonMember ==
    [][\A p \in Procs :
         Step(p) =>
           /\ (pc[p] = "remove_get_file" /\ ~Files[file_id[p]].exists)
                 => Returns(p) /\ last'.result = "NotFoundFile"
           /\ (/\ pc[p] = "remove_update"
               /\ exclusive[p]
               /\ Knowledges[id[p]].exists
               /\ ~InList(file_id[p], file_idsOf(Knowledges[id[p]])))
                 => Returns(p) /\ last'.result = "Conflict"
           /\ (/\ pc[p] \in RemovePcs
               /\ Returns(p)
               /\ exclusive[p]
               /\ Repeats("remove", id[p], file_id[p]) = "Ok")
                 => last'.result = "NotFoundFile"]_vars

\* removeFile(K, F) ran twice in a row on an existing collection: the first
\* call succeeded and the second returned NotFound for the file.
C7_Witness ==
    /\ last.op = "remove"
    /\ last.result = "NotFoundFile"
    /\ last.repeats = "Ok"
    /\ last.exclusive
    /\ Knowledges[last.id].exists
    /\ ~Files[last.file_id].exists

\* ---------------------------------------------------------------- C8
\* The list s without the entries equal to x, the others in their order.
Without(s, x) == SelectSeq(s, LAMBDA y : y # x)

\* C8: a removeFile(K, F) that no request on K overlapped and that returns
\* success leaves K.file_ids equal to the previous list without F, leaves
\* no vector entry tagged F in K's index and leaves F without file record
\* and without blob; the record in the response is the stored record.
C8_SequentialRemove ==
    [][\A p \in Procs :
         (/\ Step(p)
          /\ pc[p] = "remove_update"
          /\ exclusive[p]
          /\ last'.result = "Ok")
         => /\ Knowledges'[id[p]].exists
            /\ InList(file_id[p], file_idsOf(Knowledges[id[p]]))
            /\ file_idsOf(Knowledges'[id[p]]) =
                  Without(file_idsOf(Knowledges[id[p]]), file_id[p])
            /\ last'.file_ids = file_idsOf(Knowledges'[id[p]])
            /\ <<id[p], file_id[p]>> \notin VECTOR_DB'
            /\ ~Files'[file_id[p]].exists
            /\ file_id[p] \notin blobs']_vars

\* A sequential remove succeeded on a collection with two members: the other
\* member is what is left, the removed file has no record, blob or entry.
C8_Witness ==
    /\ last.op = "remove"
    /\ last.result = "Ok"
    /\ last.exclusive
    /\ Len(last.file_ids) = 1
    /\ last.file_ids[1] < last.file_id
    /\ Knowledges[last.id].file_ids = last.file_ids
    /\ ~Files[last.file_id].exists
    /\ last.file_id \notin blobs
    /\ <<last.id, last.file_id>> \notin VECTOR_DB

\* ---------------------------------------------------------------- C9
\* C9: deleteCollection returns true exactly when a knowledge record with
\* that id exists at its record deletion, never anything but true or false,
\* and leaves no record; one that no request on the id overlapped leaves no
\* vector entry of the collection, and returns false when it is the same
\* call as the one that returned just before.
C9_DeleteIdempotent ==
    [][\A p \in Procs :
         (Step(p) /\ pc[p] = "delete_knowledge")
         => /\ Returns(p)
            /\ last'.result =
                  (IF Knowledges[id[p]].exists THEN "True" ELSE "False")
            /\ ~Knowledges'[id[p]].exists
            /\ exclusive[p] =>
                  /\ \A f \in FIds : <<id[p], f>> \notin VECTOR_DB'
                  /\ Repeats("delete", id[p], 0) # "none"
                        => last'.result = "False"]_vars

\* deleteCollection(K) ran twice in a row: true, then false.
C9_Witness ==
    /\ last.op = "delete"
    /\ last.result = "False"
    /\ last.repeats = "True"
    /\ last.exclusive
    /\ ~Knowledges[last.id].exists
    /\ \A f \in FIds : <<last.id, f>> \notin VECTOR_DB

\* ---------------------------------------------------------------- C10
EntriesOf(V, k) == {e \in V : e[1] = k}

\* C10: neither step of deleteCollection(K) changes a file record or a
\* blob, or the record or the vector entries of a collection other than K.
C10_DeleteFrame ==
    [][\A p \in Procs :
         (Step(p) /\ (pc'[p] = "delete_knowledge" \/ pc[p] = "delete_knowledge"))
         => LET k == IF pc[p] = "delete_knowledge" THEN id[p] ELSE id'[p]
            IN  /\ UNCHANGED <<Files, blobs>>
                /\ \A k2 \in KIds \ {k} :
                      /\ Knowledges'[k2] = Knowledges[k2]
                      /\ EntriesOf(VECTOR_DB', k2) = EntriesOf(VECTOR_DB, k2)]_vars

\* A collection was deleted while another collection lists an indexed file:
\* that collection, its entry and the file's record and blob are still there.
C10_Witness ==
    /\ last.op = "delete"
    /\ last.result = "True"
    /\ \E k2 \in KIds \ {last.id} :
          \E f \in FIds :
              /\ InList(f, file_idsOf(Knowledges[k2]))
              /\ <<k2, f>> \in VECTOR_DB
              /\ Files[f].exists
              /\ f \in blobs

\* ------------------------------------------------------------------------
\* C11  Round trip of the S3 storage provider: while no delete_file and no
\* delete_all_files has been called, get_file and as_local_file on a locator
\* that upload_file returned for contents b yield exactly b, whatever the
\* name and whatever other uploads happened in between.
C11_RoundTrip ==
    (~issuedDelete /\ s3last.op \in {"get_file", "as_local_file"}) =>
        \A u \in uploads :
            u[1] = s3last.arg => s3last.ok /\ s3last.body = u[2]

\* ------------------------------------------------------------------------
\* C12  After delete_all_files has returned without error, get_file fails
\* on every locator that upload_file had returned before, however many
\* objects were uploaded.
C12_DeleteAllRemovesAll ==
    (s3last.op = "delete_all_files" /\ s3last.ok) =>
        \A u \in uploads : ~Retrieve(s3, u[1]).ok

\* ------------------------------------------------------------------------
\* C19  delete_file called with the locator that upload_file returned for
\* name n removes the object stored under n, so that get_file on the locator
\* fails afterwards, and removes no other object.
C19_DeleteByLocator ==
    [][(s3ops' # s3ops /\ s3last'.op = "delete_file") =>
          \A n \in Names :
              (LocatorOf(n) = s3last'.arg /\ KeyOf(n) \in DOMAIN s3) =>
                  /\ KeyOf(n) \notin DOMAIN s3'
                  /\ ~Retrieve(s3', s3last'.arg).ok
                  /\ \A k \in DOMAIN s3 \ {KeyOf(n)} :
                         k \in DOMAIN s3' /\ s3'[k] = s3[k]]_vars

\* ---------------------------------------------------------------- C13
\* C13: in every execution of addFile the record update is attempted only
\* after the indexing call returned success: the request reaches its update
\* step only from the indexing step, with the entry of its file in the
\* collection's index, and no earlier step of it writes a knowledge record.
\* When the update is attempted and does not succeed, the caller receives a
\* failure and the step changes no store: nothing is rolled back.  For an
\* addFile that no other request on the collection overlapped, the state is
\* then: the index of the collection holds the entry of the file, and the
\* file_ids of the collection do not contain the file.
C13_AddStep(p) ==
    LET k == id[p]
        f == file_id[p]
        attempted == /\ knowledge[p].exists
                     /\ ~InList(f, file_idsOf(knowledge[p]))
    IN  /\ pc'[p] = "add_update" =>
              pc[p] = "add_process_file" /\ <<k, f>> \in VECTOR_DB'
        /\ (pc[p] \in AddPcs /\ Knowledges' # Knowledges) =>
              pc[p] = "add_update" /\ attempted /\ last'.result = "Ok"
        /\ (pc[p] = "add_update" /\ attempted /\ last'.result # "Ok") =>
              /\ Returns(p)
              /\ last'.result = "UpdateFailed"
              /\ UNCHANGED <<Knowledges, Files, blobs, VECTOR_DB>>
              /\ exclusive[p] =>
                     /\ <<k, f>> \in VECTOR_DB'
                     /\ Knowledges'[k].exists
                     /\ ~InList(f, file_idsOf(Knowledges'[k]))

C13_IndexThenRecord ==
    [][\A p \in Procs : Step(p) => C13_AddStep(p)]_vars

\* An addFile that nothing overlapped indexed its file, its record write
\* failed, and it returned the failure: the entry is in the index of the
\* existing collection, whose file_ids do not list the file.
C13_Witness ==
    /\ last.op = "add"
    /\ last.result = "UpdateFailed"
    /\ last.exclusive
    /\ Knowledges[last.id].exists
    /\ <<last.id, last.file_id>> \in VECTOR_DB
    /\ ~InList(last.file_id, file_idsOf(Knowledges[last.id]))

\* ---------------------------------------------------------------- C14
\* C14: the list a successful addFile or removeFile stores is the file_ids
\* snapshot it read when it started with its own file appended or removed,
\* whatever the stored list is by then, and a write that is stored returns
\* success: no request detects that the stored list is no longer the one it
\* read.  Two requests with different files that overlap on one collection
\* can so read the same snapshot and both succeed; the stored list is then
\* the one of the last writer (C14_Witness).
C14_LastWriterWins ==
    [][\A p \in Procs :
         (Step(p) /\ pc[p] \in {"add_update", "remove_update"}) =>
            LET k == id[p]
                f == file_id[p]
                snapshot == file_idsOf(knowledge[p])
                mine == IF pc[p] = "add_update" THEN ListAppend(snapshot, f)
                        ELSE ListRemove(snapshot, f)
            IN  /\ Knowledges' # Knowledges => last'.result = "Ok"
                /\ last'.result = "Ok" =>
                      /\ file_idsOf(Knowledges'[k]) = mine
                      /\ last'.file_ids = mine
                /\ last'.lost # 0 =>
                      /\ last.result = "Ok" /\ last'.result = "Ok"
                      /\ file_idsOf(Knowledges[k]) # snapshot
                      /\ InList(last'.lost, file_idsOf(Knowledges'[k]))
                            = (last.op = "remove")]_vars

\* An addFile and a removeFile with different files overlapped on one
\* collection, read the same snapshot and both returned success; the stored
\* list is the one of the removeFile, the second writer, and lacks the file
\* the addFile added, whose vector entry is in the index.
C14_Witness ==
    /\ last.op = "remove"
    /\ last.result = "Ok"
    /\ last.lost # 0
    /\ ~last.exclusive
    /\ file_idsOf(Knowledges[last.id]) = last.file_ids
    /\ ~InList(last.lost, last.file_ids)
    /\ <<last.id, last.lost>> \in VECTOR_DB
    /\ Files[last.lost].exists
    /\ ~Files[last.file_id].exists

\* ---------------------------------------------------------------- C15
\* C15: addFile decides on the existence of the collection record as it is
\* when indexing has finished: the record it tests after the indexing call
\* exists exactly when the store holds a record of that id at that moment,
\* and it returns NotFound(collection) exactly when the record it tests
\* does not exist.  A collection created before indexing finishes is so
\* treated as existing and one deleted before is reported as
\* NotFound(collection).
C15_DecidesAfterIndexing ==
    [][\A p \in Procs :
         /\ (Step(p) /\ pc[p] = "add_process_file"
                     /\ pc'[p] = "add_update") =>
               knowledge[p].exists = Knowledges'[id[p]].exists
         /\ (Step(p) /\ pc[p] = "add_update") =>
               (last'.result = "NotFoundCollection") = ~knowledge[p].exists
      ]_vars

\* ---------------------------------------------------------------- C16
\* C16: removeFile(K, F) reaches its record write only after the vector
\* deletion and then the file deletion.  When the write is attempted (K's
\* record was read and lists F) and does not succeed, the caller receives a
\* failure and the step changes no store: nothing is rolled back or tried
\* again, and F has no file record and no blob.  For a removeFile that no
\* other request on K overlapped the state is then: K's file_ids still
\* list F, and K's index holds no entry of F.
C16_RemoveStep(p) ==
    LET k == id[p]
        f == file_id[p]
        attempted == /\ knowledge[p].exists
                     /\ InList(f, file_idsOf(knowledge[p]))
    IN  /\ pc'[p] = "remove_delete_file" =>
              pc[p] = "remove_vector_delete" /\ <<k, f>> \notin VECTOR_DB'
        /\ pc'[p] = "remove_update" =>
              /\ pc[p] = "remove_delete_file"
              /\ ~Files'[f].exists /\ f \notin blobs'
        /\ (pc[p] = "remove_update" /\ attempted /\ last'.result # "Ok") =>
              /\ Returns(p)
              /\ last'.result = "UpdateFailed"
              /\ UNCHANGED <<Knowledges, Files, blobs, VECTOR_DB>>
              /\ ~Files'[f].exists /\ f \notin blobs'
              /\ exclusive[p] =>
                     /\ Knowledges'[k].exists
                     /\ InList(f, file_idsOf(Knowledges'[k]))
                     /\ <<k, f>> \notin VECTOR_DB'

C16_RemoveWriteFails ==
    [][\A p \in Procs : Step(p) => C16_RemoveStep(p)]_vars

\* A removeFile of a member that nothing overlapped deleted the vector entry
\* and the file, its record write failed, and it returned the failure: the
\* collection still lists the file, which has no record, blob or entry.
C16_Witness ==
    /\ last.op = "remove"
    /\ last.result = "UpdateFailed"
    /\ last.exclusive
    /\ Knowledges[last.id].exists
    /\ InList(last.file_id, file_idsOf(Knowledges[last.id]))
    /\ ~Files[last.file_id].exists
    /\ last.file_id \notin blobs
    /\ <<last.id, last.file_id>> \notin VECTOR_DB

\* ---------------------------------------------------------------- C17
\* C17: no step of removeFile(K1, F) changes the knowledge record or the
\* vector entries of a collection other than K1; and a removeFile that got
\* past the file-exists check returns with F's file record deleted,
\* whatever its result, Conflict included, so that another collection
\* listing F keeps listing it.
C17_RemoveFrame ==
    [][\A p \in Procs :
         (Step(p) /\ (pc[p] \in RemovePcs \/ pc'[p] \in RemovePcs)) =>
            /\ \A k2 \in KIds \ {IF pc[p] = "idle" THEN id'[p] ELSE id[p]} :
                  /\ Knowledges'[k2] = Knowledges[k2]
                  /\ EntriesOf(VECTOR_DB', k2) = EntriesOf(VECTOR_DB, k2)
            /\ (Returns(p) /\ last'.result # "NotFoundFile") =>
                  ~Files'[file_id[p]].exists]_vars

\* ---------------------------------------------------------------- C18
\* C18: no step of addFile or removeFile creates a knowledge record: a
\* record that is absent before the step is absent after it.  An addFile or
\* removeFile that read K's record and writes after a deleteCollection(K)
\* has removed it ends in a failure, and the record stays absent.
C18_NoRecordCreated ==
    [][\A p \in Procs :
         (Step(p) /\ (pc[p] \in AddPcs \cup RemovePcs
                        \/ pc'[p] \in AddPcs \cup RemovePcs)) =>
            /\ \A k \in KIds :
                  ~Knowledges[k].exists => ~Knowledges'[k].exists
            /\ (/\ pc[p] \in {"add_update", "remove_update"}
                /\ knowledge[p].exists
                /\ ~Knowledges[id[p]].exists) =>
                  /\ Returns(p)
                  /\ last'.result \in {"UpdateFailed", "Conflict"}]_vars

\* An addFile read the record of its collection, a deleteCollection removed
\* the record, and the addFile's write afterwards failed: the record is
\* absent after the addFile has returned its failure.
C18_Witness ==
    /\ last.op = "add"
    /\ last.result = "UpdateFailed"
    /\ ~last.exclusive
    /\ ~Knowledges[last.id].exists
    /\ \A p \in Procs : ~InFlight(p)

====
